---- MODULE Spec2Model ----
(***************************************************************************)
(* iKalibr event preprocessing: the surface of active events               *)
(* (ActiveEventSurface) and the normal-flow extraction that reads it       *)
(* (EventNormFlow::ExtractNormFlows), from src/core/event_preprocessing.cpp,*)
(* the velocity estimator of core/visual_velocity_sac.h and the residual   *)
(* of factor/rgbd_velocity_factor.hpp.                                     *)
(*                                                                         *)
(* Time is counted in ticks of one millisecond, so 1E-3 s is one tick and  *)
(* 4E3 px/s is 4 px/tick.  All arithmetic is exact: the model follows the  *)
(* code's formulas on inputs that are whole ticks.                         *)
(***************************************************************************)
EXTENDS Integers, Sequences, FiniteSets, TLC

VARIABLES
    imgWidth,     \* _intri->imgWidth
    imgHeight,    \* _intri->imgHeight
    FILTER_THD,   \* ActiveEventSurface::FILTER_THD
    undisto,      \* the column shift of the undistortion map (_undistoMap)
    negAsUchar,   \* what this build stores for (uchar)(-1.0)
    sae,          \* _sae[2]
    saeLatest,    \* _saeLatest[2]
    timeLatest,   \* _timeLatest
    eventImgMat,  \* _eventImgMat
    drawEventMat, \* the drawEventMat flag this caller passes to GrabEvent
    hist,         \* the events ingested so far, in arrival order
    last,         \* the call that was made last: its name, arguments, result
    feed,         \* the EventArrays that are still to arrive
    pc,           \* ExtractNormFlows: "idle", "scan" (pixel loop), "fit", "done"
    args,         \* ExtractNormFlows: the arguments of the call
    rtsMat,       \* ExtractNormFlows: rtsMat, the raw time surface it read
    pMat,         \* ExtractNormFlows: pMat, the polarity map it read
    timeLast,     \* ExtractNormFlows: timeLast
    mask,         \* ExtractNormFlows: mask, 255 where the raw time is recent
    scan,         \* ExtractNormFlows: (x, y) of the pixel loop
    occupy,       \* ExtractNormFlows: occupy, 255 at the claimed pixels
    inliersOccupy, \* ExtractNormFlows: inliersOccupy
    nfs,          \* ExtractNormFlows: nfs, the flows recorded so far
    tsImg,        \* ExtractNormFlows: the seed marks drawn on tsImg
    inRangeData,  \* ExtractNormFlows: inRangeData of the selected pixel
    ransac,       \* ExtractNormFlows: ransac, after computeModel()
    pack,         \* the NormFlowPack returned
    vel,          \* a call of VisualVelocityEstimationRANSAC
    fac           \* an OpticalFlowCorr and an RGBDVelocityFactor over it

exvars == <<feed, pc, args, rtsMat, pMat, timeLast, mask, scan, occupy,
            inliersOccupy, nfs, tsImg, inRangeData, ransac, pack>>

vars == <<imgWidth, imgHeight, FILTER_THD, undisto, negAsUchar, sae, saeLatest,
          timeLatest, eventImgMat, drawEventMat, hist, last, feed, pc, args,
          rtsMat, pMat, timeLast, mask, scan, occupy, inliersOccupy, nfs, tsImg,
          inRangeData, ransac, pack, vel, fac>>

\* the estimator and the factor, which share no state with the surface
callvars == <<vel, fac>>

----------------------------------------------------------------------------
(* Bounds of the model *)

\* event timestamps are 0..MaxT ticks
MaxT == 2
\* filter thresholds are 0..MaxThd ticks
MaxThd == 1
\* at most this many events are ingested in one run
MaxEvents == 2
\* an EventArray holds at most this many events
MaxBatch == 2

\* image sizes (width, height) of the surfaces that are fed event by event
SurfSizes == {<<1, 1>>, <<2, 1>>}

Max(a, b) == IF a >= b THEN a ELSE b
Min(a, b) == IF a <= b THEN a ELSE b
Abs(a) == IF a >= 0 THEN a ELSE -a

----------------------------------------------------------------------------
(* ActiveEventSurface *)

Pixels(w, h) == (0 .. w - 1) \X (0 .. h - 1)

Times == 0 .. MaxT
Thds == 0 .. MaxThd

\* an Event: timestamp, position, polarity
Events(w, h) == [t : Times, x : 0 .. w - 1, y : 0 .. h - 1, p : BOOLEAN]

\* the surface of one ActiveEventSurface object
Surface == [sae |-> sae, saeLatest |-> saeLatest, timeLatest |-> timeLatest,
            eventImgMat |-> eventImgMat]

\* the constructor: all four maps zero, the event image black
FreshSurface(w, h) ==
    [sae |-> [pol \in {0, 1} |-> [px \in Pixels(w, h) |-> 0]],
     saeLatest |-> [pol \in {0, 1} |-> [px \in Pixels(w, h) |-> 0]],
     timeLatest |-> 0,
     eventImgMat |-> [px \in Pixels(w, h) |-> "black"]]

\* the mutant of AcceptEvent that forgets the opposite polarity
AcceptEventTimeOnly(et, tLast, tLastInv, thd) == et > tLast + thd

\* the mutant of AcceptEvent that reads >= for >
AcceptEventNonStrict(et, tLast, tLastInv, thd) ==
    (et >= tLast + thd) \/ (tLastInv > tLast)

\* the mutant of AcceptEvent that forgets the time since the last event
AcceptEventInverseOnly(et, tLast, tLastInv, thd) == tLastInv > tLast

\* the filter of GrabEvent: a fresh edge, not a bounce
AcceptEvent(et, tLast, tLastInv, thd) ==
    (et > tLast + thd) \/ (tLastInv > tLast)

\* the drawing step of GrabEvent: blue for a positive event, red for a negative
DrawEvent(img, e, draw) ==
    IF draw THEN [img EXCEPT ![<<e.x, e.y>>] = IF e.p THEN "blue" ELSE "red"]
    ELSE img

\* the mutant of GrabEvent whose accepted event does not reach the tracker
GrabEventTrackerOnReject(s, thd, e, draw) ==
    LET pol == IF e.p THEN 1 ELSE 0
        polInv == IF ~e.p THEN 1 ELSE 0
        px == <<e.x, e.y>>
        acc == AcceptEvent(e.t, s.saeLatest[pol][px], s.saeLatest[polInv][px], thd)
    IN  [sae |-> IF acc THEN [s.sae EXCEPT ![pol][px] = e.t] ELSE s.sae,
         saeLatest |-> IF acc THEN s.saeLatest
                       ELSE [s.saeLatest EXCEPT ![pol][px] = e.t],
         timeLatest |-> e.t,
         eventImgMat |-> DrawEvent(s.eventImgMat, e, draw)]

\* the mutant of GrabEvent that writes the accepted time to the other polarity
GrabEventOtherPolarity(s, thd, e, draw) ==
    LET pol == IF e.p THEN 1 ELSE 0
        polInv == IF ~e.p THEN 1 ELSE 0
        px == <<e.x, e.y>>
        acc == AcceptEvent(e.t, s.saeLatest[pol][px], s.saeLatest[polInv][px], thd)
    IN  [sae |-> IF acc THEN [s.sae EXCEPT ![polInv][px] = e.t] ELSE s.sae,
         saeLatest |-> [s.saeLatest EXCEPT ![pol][px] = e.t],
         timeLatest |-> e.t,
         eventImgMat |-> DrawEvent(s.eventImgMat, e, draw)]

\* the mutant of GrabEvent whose debounced event leaves the latest time alone
GrabEventLatestOnAccept(s, thd, e, draw) ==
    LET pol == IF e.p THEN 1 ELSE 0
        polInv == IF ~e.p THEN 1 ELSE 0
        px == <<e.x, e.y>>
        acc == AcceptEvent(e.t, s.saeLatest[pol][px], s.saeLatest[polInv][px], thd)
    IN  [sae |-> IF acc THEN [s.sae EXCEPT ![pol][px] = e.t] ELSE s.sae,
         saeLatest |-> [s.saeLatest EXCEPT ![pol][px] = e.t],
         timeLatest |-> IF acc THEN e.t ELSE s.timeLatest,
         eventImgMat |-> DrawEvent(s.eventImgMat, e, draw)]

\* GrabEvent(event, drawEventMat) on surface s
GrabEvent(s, thd, e, draw) ==
    LET pol == IF e.p THEN 1 ELSE 0
        polInv == IF ~e.p THEN 1 ELSE 0
        px == <<e.x, e.y>>
        tLast == s.saeLatest[pol][px]
        tLastInv == s.saeLatest[polInv][px]
    IN  [sae |-> IF AcceptEvent(e.t, tLast, tLastInv, thd)
                 THEN [s.sae EXCEPT ![pol][px] = e.t]
                 ELSE s.sae,
         saeLatest |-> [s.saeLatest EXCEPT ![pol][px] = e.t],
         timeLatest |-> e.t,
         eventImgMat |-> DrawEvent(s.eventImgMat, e, draw)]

\* the mutant of GrabEventArray that walks the array from its end
RECURSIVE GrabEventArrayReversed(_, _, _, _)
GrabEventArrayReversed(s, thd, events, draw) ==
    IF events = <<>> THEN s
    ELSE GrabEventArrayReversed(
             GrabEvent(s, thd, events[Len(events)], draw), thd,
             SubSeq(events, 1, Len(events) - 1), draw)

\* GrabEvent(events, drawEventMat): the loop over the array
RECURSIVE GrabEventArray(_, _, _, _)
GrabEventArray(s, thd, events, draw) ==
    IF events = <<>> THEN s
    ELSE GrabEventArray(GrabEvent(s, thd, Head(events), draw), thd,
                        Tail(events), draw)

\* the undistortion collaborator on a raster: every pixel takes the value
\* `shift` columns to its right, and `border` where that leaves the image
RemoveDistortion(mat, w, h, shift, border) ==
    [px \in Pixels(w, h) |->
        IF px[1] + shift < w THEN mat[<<px[1] + shift, px[2]>>] ELSE border]

\* the conversion of the double `polarity` (1.0 or -1.0) to uchar
PolarityAsUchar(polarity, neg) == IF polarity = 1 THEN 1 ELSE neg

\* the mutant of RawTimeSurface that consumes what it read
RawTimeSurfaceConsuming(s, w, h, shift, neg, ignorePolarity, undistoMat) ==
    LET polarity(px) == IF s.sae[1][px] > s.sae[0][px] THEN 1 ELSE -1
        timeSurfaceMap ==
            [px \in Pixels(w, h) |->
                Max(s.sae[1][px], s.sae[0][px])
                  * (IF ignorePolarity THEN 1 ELSE polarity(px))]
        polarityMap == [px \in Pixels(w, h) |-> PolarityAsUchar(polarity(px), neg)]
    IN  [ret |-> <<timeSurfaceMap, polarityMap>>,
         surface |-> [s EXCEPT !.sae = FreshSurface(w, h).sae]]

\* RawTimeSurface(ignorePolarity, undistoMat): the pair (time map, polarity
\* map) it returns, and the surface it leaves
RawTimeSurface(s, w, h, shift, neg, ignorePolarity, undistoMat) ==
    LET polarity(px) == IF s.sae[1][px] > s.sae[0][px] THEN 1 ELSE -1
        timeSurfaceMap ==
            [px \in Pixels(w, h) |->
                Max(s.sae[1][px], s.sae[0][px])
                  * (IF ignorePolarity THEN 1 ELSE polarity(px))]
        polarityMap == [px \in Pixels(w, h) |-> PolarityAsUchar(polarity(px), neg)]
    IN  [ret |-> IF undistoMat
                 THEN <<RemoveDistortion(timeSurfaceMap, w, h, shift, 0),
                        RemoveDistortion(polarityMap, w, h, shift, 0)>>
                 ELSE <<timeSurfaceMap, polarityMap>>,
         surface |-> s]

----------------------------------------------------------------------------
(* The calls on a surface *)

SetSurface(s) ==
    /\ sae' = s.sae
    /\ saeLatest' = s.saeLatest
    /\ timeLatest' = s.timeLatest
    /\ eventImgMat' = s.eventImgMat

Params == <<imgWidth, imgHeight, FILTER_THD, undisto, negAsUchar, drawEventMat>>

\* no ExtractNormFlows call has been made
ExtractIdle ==
    /\ feed = <<>>
    /\ pc = "idle"
    /\ args = <<>>
    /\ rtsMat = <<>>
    /\ pMat = <<>>
    /\ timeLast = 0
    /\ mask = <<>>
    /\ scan = <<0, 0>>
    /\ occupy = <<>>
    /\ inliersOccupy = <<>>
    /\ nfs = <<>>
    /\ tsImg = <<>>
    /\ inRangeData = <<>>
    /\ ransac = <<>>
    /\ pack = <<>>

\* no estimator call has been made, no factor built
CallsIdle ==
    /\ vel = <<>>
    /\ fac = <<>>

\* the reader queries after the writer has ingested: a query is followed by
\* queries only
Ingesting == last.op \in {"Create", "GrabEvent", "GrabEventArray"}

DoGrabEvent ==
    /\ Ingesting
    /\ Len(hist) < MaxEvents
    /\ \E e \in Events(imgWidth, imgHeight) :
          /\ SetSurface(GrabEvent(Surface, FILTER_THD, e, drawEventMat))
          /\ hist' = Append(hist, e)
          /\ last' = [op |-> "GrabEvent", args |-> <<1>>, ret |-> <<>>]
    /\ UNCHANGED Params
    /\ UNCHANGED callvars
    /\ UNCHANGED exvars

Batches(w, h, n) == UNION {[1 .. k -> Events(w, h)] : k \in 1 .. n}

DoGrabEventArray ==
    /\ Ingesting
    /\ Len(hist) < MaxEvents
    /\ \E events \in Batches(imgWidth, imgHeight,
                              Min(MaxBatch, MaxEvents - Len(hist))) :
          /\ SetSurface(GrabEventArray(Surface, FILTER_THD, events, drawEventMat))
          /\ hist' = hist \o events
          /\ last' = [op |-> "GrabEventArray", args |-> <<Len(events)>>,
                      ret |-> <<>>]
    /\ UNCHANGED Params
    /\ UNCHANGED callvars
    /\ UNCHANGED exvars

DoRawTimeSurface ==
    /\ \E ignorePolarity \in BOOLEAN, undistoMat \in BOOLEAN :
          LET r == RawTimeSurface(Surface, imgWidth, imgHeight, undisto,
                                  negAsUchar, ignorePolarity, undistoMat)
          IN  /\ last' = [op |-> "RawTimeSurface",
                          args |-> <<ignorePolarity, undistoMat>>,
                          ret |-> r.ret]
              /\ SetSurface(r.surface)
    /\ UNCHANGED hist
    /\ UNCHANGED Params
    /\ UNCHANGED callvars
    /\ UNCHANGED exvars

Init ==
    /\ \E sz \in SurfSizes :
          /\ imgWidth = sz[1]
          /\ imgHeight = sz[2]
          /\ sae = FreshSurface(sz[1], sz[2]).sae
          /\ saeLatest = FreshSurface(sz[1], sz[2]).saeLatest
          /\ eventImgMat = FreshSurface(sz[1], sz[2]).eventImgMat
    /\ timeLatest = 0
    /\ FILTER_THD \in Thds
    /\ undisto \in {0, 1}
    /\ negAsUchar \in {0, 255}
    /\ drawEventMat \in BOOLEAN
    /\ hist = <<>>
    /\ last = [op |-> "Create", args |-> <<>>, ret |-> <<>>]
    /\ ExtractIdle
    /\ CallsIdle

Next ==
    \/ DoGrabEvent
    \/ DoGrabEventArray
    \/ DoRawTimeSurface

Spec == Init /\ [][Next]_vars

----------------------------------------------------------------------------
(* What the ingested events say, for the statements below *)

PolOf(e) == IF e.p THEN 1 ELSE 0

\* the events came with non-decreasing timestamps
InOrder ==
    \A i \in 2 .. Len(hist) : hist[i].t >= hist[i - 1].t

\* the timestamp of the latest ingested event of polarity pol (0: none yet)
PolLatest(pol) ==
    LET idx == {i \in 1 .. Len(hist) : PolOf(hist[i]) = pol}
    IN  IF idx = {} THEN 0
        ELSE hist[CHOOSE i \in idx : \A j \in idx : j <= i].t

\* the events of polarity pol at pixel px, as indexes into hist
EventsAt(h, pol, px) ==
    {i \in 1 .. Len(h) : PolOf(h[i]) = pol /\ <<h[i].x, h[i].y>> = px}

\* the surface after the first n events of evs, ingested one at a time from s
RECURSIVE OneAtATime(_, _, _, _, _)
OneAtATime(s, evs, n, thd, draw) ==
    IF n = 0 THEN s
    ELSE GrabEvent(OneAtATime(s, evs, n - 1, thd, draw), thd, evs[n], draw)

ImagePixels == Pixels(imgWidth, imgHeight)

\* the step ingested the single event hist'[Len(hist')]
SingleStep == last'.op = "GrabEvent" /\ Len(hist') = Len(hist) + 1

\* everything but entry (pol, px) of the two maps is as before
OnlyEntry(pol, px) ==
    \A q \in {0, 1}, c \in ImagePixels :
        (q # pol \/ c # px) =>
            /\ sae'[q][c] = sae[q][c]
            /\ saeLatest'[q][c] = saeLatest[q][c]

----------------------------------------------------------------------------
(* C1: the debounce rule of one ingested event *)

\* C1 as claimed: with tLast = sae[p](x,y) and tLastInv = sae[not p](x,y) read
\* before the update, sae[p](x,y) becomes t exactly when t > tLast + FILTER_THD
\* or tLastInv > tLast, and otherwise keeps its value while saeLatest[p](x,y)
\* becomes t.
C1_RuleOnSae ==
    [][SingleStep =>
         LET e == hist'[Len(hist')]
             pol == PolOf(e)
             px == <<e.x, e.y>>
             tLast == sae[pol][px]
             tLastInv == sae[1 - pol][px]
         IN  IF (e.t > tLast + FILTER_THD) \/ (tLastInv > tLast)
             THEN sae'[pol][px] = e.t
             ELSE sae'[pol][px] = sae[pol][px] /\ saeLatest'[pol][px] = e.t]_vars

\* C1 amended: the rule reads the debounce trackers, tLast = saeLatest[p](x,y)
\* and tLastInv = saeLatest[not p](x,y), both before the update: sae[p](x,y)
\* becomes t exactly when t > tLast + FILTER_THD or tLastInv > tLast, otherwise
\* it keeps its value; saeLatest[p](x,y) and the latest global timestamp
\* become t in both cases, and no other entry of sae or saeLatest changes.
C1_RuleOnSaeLatest ==
    [][SingleStep =>
         LET e == hist'[Len(hist')]
             pol == PolOf(e)
             px == <<e.x, e.y>>
             tLast == saeLatest[pol][px]
             tLastInv == saeLatest[1 - pol][px]
         IN  /\ IF (e.t > tLast + FILTER_THD) \/ (tLastInv > tLast)
                THEN sae'[pol][px] = e.t
                ELSE sae'[pol][px] = sae[pol][px]
             /\ saeLatest'[pol][px] = e.t
             /\ timeLatest' = e.t
             /\ OnlyEntry(pol, px)]_vars

\* C1 witness: a single event was just debounced although it came more than
\* FILTER_THD after the accepted time of its pixel and polarity, the tracker
\* being ahead of the accepted time there
C1_Witness ==
    /\ last.op = "GrabEvent"
    /\ Len(hist) = 2
    /\ LET e == hist[2]
           pol == PolOf(e)
           px == <<e.x, e.y>>
       IN  /\ PolOf(hist[1]) = pol /\ <<hist[1].x, hist[1].y>> = px
           /\ e.t > sae[pol][px] + FILTER_THD
           /\ sae[pol][px] < e.t
           /\ saeLatest[pol][px] = e.t

----------------------------------------------------------------------------
(* C2: sae <= saeLatest *)

\* C2 as claimed: sae[pol](x,y) <= saeLatest[pol](x,y) for both polarities and
\* every pixel in every reachable state, whatever the order of the timestamps.
C2_SaeBelowLatestAlways ==
    \A pol \in {0, 1}, px \in ImagePixels : sae[pol][px] <= saeLatest[pol][px]

\* C2 amended: sae[pol](x,y) <= saeLatest[pol](x,y) for both polarities and
\* every pixel in every state reached by single-event and batch ingests whose
\* events came with non-decreasing timestamps.
C2_SaeBelowLatestInOrder ==
    InOrder => C2_SaeBelowLatestAlways

\* C2 witness: two events with increasing timestamps, the later one
\* debounced, so that sae is strictly below saeLatest at its pixel
C2_Witness ==
    /\ InOrder
    /\ Len(hist) = 2
    /\ hist[1].t < hist[2].t
    /\ LET e == hist[2]
       IN  sae[PolOf(e)][<<e.x, e.y>>] < saeLatest[PolOf(e)][<<e.x, e.y>>]

----------------------------------------------------------------------------
(* C3: sae is monotone under ordered ingestion *)

\* C3: while the events come with non-decreasing timestamps, no entry of sae
\* decreases in a step, and after the step every sae[p](x,y) is at most the
\* timestamp of the latest ingested event of polarity p.
C3_SaeMonotone ==
    [][InOrder' =>
         \A pol \in {0, 1}, px \in ImagePixels :
             /\ sae'[pol][px] >= sae[pol][px]
             /\ sae'[pol][px] <= PolLatest(pol)']_vars

\* C3 witness: ordered events of both polarities, an accepted time above zero
\* that is older than the latest event of its polarity
C3_Witness ==
    /\ InOrder
    /\ Len(hist) = MaxEvents
    /\ \E pol \in {0, 1}, px \in ImagePixels :
          0 < sae[pol][px] /\ sae[pol][px] < PolLatest(pol)

----------------------------------------------------------------------------
(* C4: two events of one polarity within FILTER_THD *)

\* the 64x48 scenario: threshold 0.01 s, polarity 1 at (10,10) at 0.0 s and
\* 0.005 s, in ticks
ScenarioSurface ==
    GrabEvent(GrabEvent(FreshSurface(64, 48), 10,
                        [t |-> 0, x |-> 10, y |-> 10, p |-> TRUE], FALSE),
              10,
              [t |-> 5, x |-> 10, y |-> 10, p |-> TRUE], FALSE)

\* C4: when the event ingested has the polarity p and the pixel of an earlier
\* event, comes at most FILTER_THD after the latest such event, and no event
\* of the opposite polarity at that pixel has a later timestamp than that
\* one, the step leaves sae[p](x,y) unchanged and sets saeLatest[p](x,y) to the
\* new time; and the scenario ends with sae[1](10,10) = 0 and
\* saeLatest[1](10,10) = 0.005 s.
C4_SecondWithinThreshold ==
    /\ ScenarioSurface.sae[1][<<10, 10>>] = 0
    /\ ScenarioSurface.saeLatest[1][<<10, 10>>] = 5
    /\ [][SingleStep =>
            LET e == hist'[Len(hist')]
                pol == PolOf(e)
                px == <<e.x, e.y>>
                same == EventsAt(hist, pol, px)
                other == EventsAt(hist, 1 - pol, px)
                prev == hist[CHOOSE i \in same : \A j \in same : j <= i]
            IN  (/\ same # {}
                 /\ prev.t <= e.t
                 /\ e.t <= prev.t + FILTER_THD
                 /\ \A i \in other : hist[i].t <= prev.t)
                => /\ sae'[pol][px] = sae[pol][px]
                   /\ saeLatest'[pol][px] = e.t]_vars

\* C4 witness: the second of two events of one polarity at one pixel arrived
\* exactly FILTER_THD > 0 after the first, which had been accepted
C4_Witness ==
    /\ last.op = "GrabEvent"
    /\ Len(hist) = 2
    /\ FILTER_THD > 0
    /\ hist[1].p = hist[2].p
    /\ <<hist[1].x, hist[1].y>> = <<hist[2].x, hist[2].y>>
    /\ hist[2].t = hist[1].t + FILTER_THD
    /\ sae[PolOf(hist[2])][<<hist[2].x, hist[2].y>>] = hist[1].t
    /\ saeLatest[PolOf(hist[2])][<<hist[2].x, hist[2].y>>] = hist[2].t

----------------------------------------------------------------------------
(* C5: RawTimeSurface is a read-only query *)

\* C5: a call of RawTimeSurface leaves sae, saeLatest and the latest global
\* timestamp as they were, and when the call before it was RawTimeSurface
\* with the same arguments it returns the same time map and polarity map.
C5_RawTimeSurfaceReadOnly ==
    [][last'.op = "RawTimeSurface" =>
         /\ sae' = sae
         /\ saeLatest' = saeLatest
         /\ timeLatest' = timeLatest
         /\ (last.op = "RawTimeSurface" /\ last.args = last'.args)
                => last'.ret = last.ret]_vars

\* C5 witness: a RawTimeSurface call on a surface that holds accepted events
\* of both polarities, with polarity kept and the maps undistorted
C5_Witness ==
    /\ last.op = "RawTimeSurface"
    /\ last.args = <<FALSE, TRUE>>
    /\ \E px \in ImagePixels : sae[1][px] > sae[0][px] /\ sae[0][px] > 0
    /\ \E px \in ImagePixels : last.ret[1][px] # 0

----------------------------------------------------------------------------
(* C6: a batch is its events one at a time *)

\* C6: from any surface state, a batch ingest ends in the sae, saeLatest and
\* latest global timestamp (and event image) that ingesting the same events
\* one at a time, in the batch's arrival order, ends in.
C6_BatchIsOneAtATime ==
    [][last'.op = "GrabEventArray" =>
         LET batch == SubSeq(hist', Len(hist) + 1, Len(hist'))
         IN  Surface' = OneAtATime(Surface, batch, Len(batch), FILTER_THD,
                                   drawEventMat)]_vars

\* C6 witness: a batch of two events with different timestamps was ingested,
\* one of them debounced
C6_Witness ==
    /\ last.op = "GrabEventArray"
    /\ last.args = <<2>>
    /\ Len(hist) = 2
    /\ hist[1].t # hist[2].t
    /\ \E pol \in {0, 1}, px \in ImagePixels : sae[pol][px] # saeLatest[pol][px]

----------------------------------------------------------------------------
(* EventNormFlow::ExtractNormFlows: the quantities of one call *)

\* 1E-3 s, the least raw time that counts as a timestamp, in ticks
Eps == 1
\* 4E3 px/s, the bound on the norm of a recorded flow, in px per tick
NfBound == 4

\* plane slopes of the generated surfaces are 0..MaxSlope ticks per pixel
MaxSlope == 1

RECURSIVE GCDNat(_, _)
GCDNat(a, b) == IF b = 0 THEN a ELSE GCDNat(b, a % b)

GCD(a, b) == GCDNat(Abs(a), Abs(b))

\* the mutant of SubTravSize that forgets the exclusion radius
SubTravSizeWindowOnly(winSize, neighborDist) == winSize

\* subTravSize, the half side of the square traversed around a candidate
SubTravSize(winSize, neighborDist) == Max(winSize, neighborDist)

\* winSampleCount
WinSampleCount(ws) == (2 * ws + 1) * (2 * ws + 1)

\* winSampleCountThd: the double product winSampleCount * goodRatioThd
\* converted to int, goodRatioThd being ratio.num / ratio.den
WinSampleCountThd(ws, ratio) == (WinSampleCount(ws) * ratio.num) \div ratio.den

\* the mutant of InRange that takes every timestamped pixel as recent
InRangeTimestamped(rts, w, h, tLast, decay) ==
    [px \in Pixels(w, h) |->
        IF rts[px] >= Eps /\ rts[px] <= tLast THEN 255 ELSE 0]

\* cv::inRange(rtsMat, max(1E-3, timeLast - 1.5 * decaySec), timeLast, mask)
InRange(rts, w, h, tLast, decay) ==
    [px \in Pixels(w, h) |->
        IF /\ 2 * rts[px] >= Max(2 * Eps, 2 * tLast - 3 * decay)
           /\ rts[px] <= tLast
        THEN 255 ELSE 0]

\* jumpCurPixel: an occupied pixel is met in the traversed square within
\* neighborDist of (x, y)
JumpCurPixel(occ, x, y, sub, neighborDist) ==
    \E dy \in -sub .. sub, dx \in -sub .. sub :
        /\ Abs(dx) <= neighborDist
        /\ Abs(dy) <= neighborDist
        /\ occ[<<x + dx, y + dy>>] = 255

\* inRangeData: [x, y, timestamp] of the masked pixels of the window, in the
\* order the traversal meets them
InRangeData(msk, rts, x, y, sub, ws) ==
    LET side == 2 * sub + 1
        met == [k \in 1 .. side * side |->
                   <<x + ((k - 1) % side) - sub, y + ((k - 1) \div side) - sub>>]
        InWindow(c) == /\ Abs(c[1] - x) <= ws
                       /\ Abs(c[2] - y) <= ws
                       /\ msk[c] = 255
        picked == SelectSeq(met, InWindow)
    IN  [i \in 1 .. Len(picked) |-> <<picked[i][1], picked[i][2], rts[picked[i]]>>]

\* timeCen: 0.0, or the timestamp gathered at nx == x && ny == y
TimeCen(data, x, y) ==
    LET own == SelectSeq(data, LAMBDA row : row[1] = x /\ row[2] = y)
    IN  IF own = <<>> THEN 0 ELSE own[Len(own)][3]

\* the sum of column c over the first n rows of data
RECURSIVE ColumnSum(_, _, _)
ColumnSum(data, c, n) ==
    IF n = 0 THEN 0 ELSE data[n][c] + ColumnSum(data, c, n - 1)

\* Centralization: the data minus its mean, kept as whole numbers over the
\* common denominator den = n
Centralization(rows) ==
    LET n == Len(rows)
        mean1 == ColumnSum(rows, 1, n)
        mean2 == ColumnSum(rows, 2, n)
        mean3 == ColumnSum(rows, 3, n)
    IN  [pts |-> [i \in 1 .. n |-> <<n * rows[i][1] - mean1,
                                     n * rows[i][2] - mean2,
                                     n * rows[i][3] - mean3>>],
         den |-> n]

\* EventLocalPlaneSacProblem::getSampleSize
getSampleSize == 3

\* the entries of M^T M and M^T b over the first n of the rows `indices` of
\* P, for M = [x y 1] and b = -t: <<xx, xy, x, yy, y, 1, -xt, -yt, -t>> summed
RECURSIVE NormalEquations(_, _, _)
NormalEquations(P, indices, n) ==
    IF n = 0 THEN <<0, 0, 0, 0, 0, 0, 0, 0, 0>>
    ELSE LET r == P[indices[n]]
             m == NormalEquations(P, indices, n - 1)
         IN  <<m[1] + r[1] * r[1], m[2] + r[1] * r[2], m[3] + r[1],
               m[4] + r[2] * r[2], m[5] + r[2], m[6] + 1,
               m[7] - r[1] * r[3], m[8] - r[2] * r[3], m[9] - r[3]>>

\* the plane (A, B, C) = (a, b, c) / q, q > 0, in lowest terms, of the solution
\* (u1, u2, u3) / d of the normal equations on data scaled by n
PlaneModel(u1, u2, u3, d, n) ==
    LET sg == IF d < 0 THEN -1 ELSE 1
        g == GCD(GCD(u1 * n, u2 * n), GCD(u3, d * n))
    IN  [a |-> sg * ((u1 * n) \div g), b |-> sg * ((u2 * n) \div g),
         c |-> sg * (u3 \div g), q |-> sg * ((d * n) \div g)]

\* computeModelCoefficients: the solutions (M^T M).ldlt().solve(M^T b) can
\* return for the rows `indices` of the data, by the cofactors of M^T M.  A
\* regular M^T M has one solution; for a singular one the factorization
\* solves for the unknowns it pivots on and leaves the last one zero, and any
\* unknown may be that one
computeModelCoefficients(cdata, indices) ==
    LET m == NormalEquations(cdata.pts, indices, Len(indices))
        xx == m[1]
        xy == m[2]
        x == m[3]
        yy == m[4]
        y == m[5]
        n == m[6]
        hx == m[7]
        hy == m[8]
        ht == m[9]
        c11 == yy * n - y * y
        c12 == y * x - xy * n
        c13 == xy * y - yy * x
        c22 == xx * n - x * x
        c23 == xy * x - xx * y
        c33 == xx * yy - xy * xy
        d == xx * c11 + xy * c12 + x * c13
    IN  IF d # 0
        THEN {PlaneModel(c11 * hx + c12 * hy + c13 * ht,
                         c12 * hx + c22 * hy + c23 * ht,
                         c13 * hx + c23 * hy + c33 * ht, d, cdata.den)}
        ELSE (IF c33 # 0
              THEN {PlaneModel(yy * hx - xy * hy, xx * hy - xy * hx, 0, c33,
                               cdata.den)}
              ELSE {})
             \cup
             (IF c22 # 0
              THEN {PlaneModel(n * hx - x * ht, 0, xx * ht - x * hx, c22,
                               cdata.den)}
              ELSE {})
             \cup
             (IF c11 # 0
              THEN {PlaneModel(0, n * hy - y * ht, yy * ht - y * hy, c11,
                               cdata.den)}
              ELSE {})

\* PointToPlaneDistance of row i of the data to the plane, |t - tPred| with
\* tPred = -(A x + B y + C), as the fraction num / den
PointToPlaneDistance(cdata, i, model) ==
    LET p == cdata.pts[i]
    IN  [num |-> Abs(model.q * p[3] + model.a * p[1] + model.b * p[2]
                     + model.c * cdata.den),
         den |-> model.q * cdata.den]

\* the rows within `threshold` of the plane, in row order
SelectWithinDistance(cdata, model, threshold) ==
    LET Within(i) == LET dist == PointToPlaneDistance(cdata, i, model)
                     IN  dist.num < threshold * dist.den
    IN  SelectSeq([i \in 1 .. Len(cdata.pts) |-> i], Within)

\* the samples of getSampleSize rows a consensus run can draw from n rows
Samples(n) ==
    {s \in (1 .. n) \X (1 .. n) \X (1 .. n) : s[1] < s[2] /\ s[2] < s[3]}

\* opengv::sac::Ransac::computeModel: it fails when fewer rows than a sample
\* are offered; otherwise it ends with the model of a sample that no other
\* sample beats in number of rows within threshold_, those rows being inliers_
RansacComputeModel(cdata, threshold) ==
    LET n == Len(cdata.pts)
        models == UNION {computeModelCoefficients(cdata, s) : s \in Samples(n)}
        found == {SelectWithinDistance(cdata, model, threshold) :
                     model \in models}
    IN  IF n < getSampleSize
        THEN {[res |-> FALSE, inliers |-> <<>>]}
        ELSE {[res |-> TRUE, inliers |-> inl] :
                 inl \in {i1 \in found : \A i2 \in found : Len(i2) <= Len(i1)}}

\* optimizeModelCoefficients: the fit over the inliers
optimizeModelCoefficients(cdata, inliers) ==
    computeModelCoefficients(cdata, inliers)

\* nf = 1.0 / (dtdx * dtdx + dtdy * dtdy) * (dtdx, dtdy), dtdx = -abc(0) and
\* dtdy = -abc(1), as the vector (x, y) / den in lowest terms; den = 0 is the
\* vector 1.0 / 0 * (0, 0), whose components are not numbers
NormFlowVector(abc) ==
    LET g0 == GCD(GCD(abc.a, abc.b), abc.q)
        a == abc.a \div g0
        b == abc.b \div g0
        q == abc.q \div g0
        g == GCD(GCD(a * q, b * q), a * a + b * b)
    IN  IF a = 0 /\ b = 0 THEN [x |-> 0, y |-> 0, den |-> 0]
        ELSE [x |-> (-a * q) \div g, y |-> (-b * q) \div g,
              den |-> (a * a + b * b) \div g]

Finite(nf) == nf.den # 0

\* nf.squaredNorm() > bound * bound; a comparison with a non-number is false
SquaredNormExceeds(nf, bound) ==
    /\ Finite(nf)
    /\ nf.x * nf.x + nf.y * nf.y > bound * bound * nf.den * nf.den

----------------------------------------------------------------------------
(* EventNormFlow::ExtractNormFlows: the call, pixel by pixel *)

\* the arguments the callers pass: decaySec and timeDistEventToPlaneThd in
\* ticks, goodRatioThd as a fraction
ExtractArgs ==
    [decaySec : {1, 8},
     winSize : {0, 1},
     neighborDist : {0, 1, 2, 3},
     goodRatioThd : {[num |-> 1, den |-> 2], [num |-> 1, den |-> 1]},
     timeDistEventToPlaneThd : {1, 2}]

Zeros(w, h) == [px \in Pixels(w, h) |-> 0]

Sub == SubTravSize(args.winSize, args.neighborDist)

\* the mutant of InLoop that runs the rows to the border of the image
InLoopToTheBorder ==
    /\ scan[2] < imgHeight
    /\ scan[1] < imgWidth - Sub

\* (x, y) of the pixel loop is inside the loop bounds
InLoop ==
    /\ scan[2] < imgHeight - Sub
    /\ scan[1] < imgWidth - Sub

\* continue: x++, and y++ with x back at subTravSize at the end of a row
Continue ==
    /\ scan' = IF scan[1] + 1 < imgWidth - Sub THEN <<scan[1] + 1, scan[2]>>
               ELSE <<Sub, scan[2] + 1>>
    /\ pc' = "scan"

WindowData == InRangeData(mask, rtsMat, scan[1], scan[2], Sub, args.winSize)

\* ransac.inliers_.size() / (double)inRangeData.size() < goodRatioThd
TooFewInliers ==
    Len(ransac.inliers) * args.goodRatioThd.den
        < args.goodRatioThd.num * Len(inRangeData)

\* the planes optimizeModelCoefficients can return for the inliers
Fitted == optimizeModelCoefficients(Centralization(inRangeData), ransac.inliers)

SurfaceVars == <<sae, saeLatest, timeLatest, eventImgMat, hist, last, feed>>

\* the writer ingests the next EventArray
DoFeed ==
    /\ pc = "idle"
    /\ feed # <<>>
    /\ SetSurface(GrabEventArray(Surface, FILTER_THD, Head(feed), drawEventMat))
    /\ hist' = hist \o Head(feed)
    /\ last' = [op |-> "GrabEventArray", args |-> <<Len(Head(feed))>>,
                ret |-> <<>>]
    /\ feed' = Tail(feed)
    /\ UNCHANGED <<pc, args, rtsMat, pMat, timeLast, mask, scan, occupy,
                   inliersOccupy, nfs, tsImg, inRangeData, ransac, pack>>
    /\ UNCHANGED Params
    /\ UNCHANGED callvars

\* lines 268-286: read the surface, build the mask, start the pixel loop
ExtractBegin ==
    /\ pc = "idle"
    /\ feed = <<>>
    /\ \E a \in ExtractArgs :
          LET r == RawTimeSurface(Surface, imgWidth, imgHeight, undisto,
                                  negAsUchar, TRUE, TRUE)
          IN  /\ args' = a
              /\ rtsMat' = r.ret[1]
              /\ pMat' = r.ret[2]
              /\ SetSurface(r.surface)
              /\ timeLast' = timeLatest
              /\ mask' = InRange(r.ret[1], imgWidth, imgHeight, timeLatest,
                                 a.decaySec)
              /\ scan' = <<SubTravSize(a.winSize, a.neighborDist),
                           SubTravSize(a.winSize, a.neighborDist)>>
    /\ occupy' = Zeros(imgWidth, imgHeight)
    /\ inliersOccupy' = Zeros(imgWidth, imgHeight)
    /\ nfs' = <<>>
    /\ tsImg' = [px \in Pixels(imgWidth, imgHeight) |-> "gray"]
    /\ pc' = "scan"
    /\ UNCHANGED <<hist, last, feed, inRangeData, ransac, pack>>
    /\ UNCHANGED Params
    /\ UNCHANGED callvars

\* lines 293-295: the pixel is not in the mask
ScanSkipMasked ==
    /\ pc = "scan"
    /\ InLoop
    /\ mask[scan] # 255
    /\ Continue
    /\ UNCHANGED <<args, rtsMat, pMat, timeLast, mask, occupy, inliersOccupy,
                   nfs, tsImg, inRangeData, ransac, pack>>
    /\ UNCHANGED SurfaceVars
    /\ UNCHANGED Params
    /\ UNCHANGED callvars

\* lines 307-314, 337: an occupied pixel is in neighbor range
ScanJump ==
    /\ pc = "scan"
    /\ InLoop
    /\ mask[scan] = 255
    /\ JumpCurPixel(occupy, scan[1], scan[2], Sub, args.neighborDist)
    /\ Continue
    /\ UNCHANGED <<args, rtsMat, pMat, timeLast, mask, occupy, inliersOccupy,
                   nfs, tsImg, inRangeData, ransac, pack>>
    /\ UNCHANGED SurfaceVars
    /\ UNCHANGED Params
    /\ UNCHANGED callvars

\* line 337: the data in the window is not sufficient
ScanInsufficient ==
    /\ pc = "scan"
    /\ InLoop
    /\ mask[scan] = 255
    /\ ~JumpCurPixel(occupy, scan[1], scan[2], Sub, args.neighborDist)
    /\ Len(WindowData) < WinSampleCountThd(args.winSize, args.goodRatioThd)
    /\ Continue
    /\ UNCHANGED <<args, rtsMat, pMat, timeLast, mask, occupy, inliersOccupy,
                   nfs, tsImg, inRangeData, ransac, pack>>
    /\ UNCHANGED SurfaceVars
    /\ UNCHANGED Params
    /\ UNCHANGED callvars

\* lines 337-355: the pixel is selected and occupied, the consensus run made
ScanClaim ==
    /\ pc = "scan"
    /\ InLoop
    /\ mask[scan] = 255
    /\ ~JumpCurPixel(occupy, scan[1], scan[2], Sub, args.neighborDist)
    /\ LET data == WindowData
       IN  /\ ~(Len(data) < WinSampleCountThd(args.winSize, args.goodRatioThd))
           /\ inRangeData' = data
           /\ ransac' \in RansacComputeModel(Centralization(data),
                                             args.timeDistEventToPlaneThd)
    /\ tsImg' = [tsImg EXCEPT ![scan] = "red"]
    /\ occupy' = [occupy EXCEPT ![scan] = 255]
    /\ pc' = "fit"
    /\ UNCHANGED <<args, rtsMat, pMat, timeLast, mask, scan, inliersOccupy, nfs,
                   pack>>
    /\ UNCHANGED SurfaceVars
    /\ UNCHANGED Params
    /\ UNCHANGED callvars

\* the mutant of FitReject that gives the pixel back
FitRejectReleasing ==
    /\ pc = "fit"
    /\ ~(ransac.res /\ ~TooFewInliers)
    /\ occupy' = [occupy EXCEPT ![scan] = 0]
    /\ Continue
    /\ UNCHANGED <<args, rtsMat, pMat, timeLast, mask, inliersOccupy, nfs,
                   tsImg, inRangeData, ransac, pack>>
    /\ UNCHANGED SurfaceVars
    /\ UNCHANGED Params
    /\ UNCHANGED callvars

\* lines 357-359: the consensus run failed or found too few inliers
FitReject ==
    /\ pc = "fit"
    /\ ~(ransac.res /\ ~TooFewInliers)
    /\ Continue
    /\ UNCHANGED <<args, rtsMat, pMat, timeLast, mask, occupy, inliersOccupy,
                   nfs, tsImg, inRangeData, ransac, pack>>
    /\ UNCHANGED SurfaceVars
    /\ UNCHANGED Params
    /\ UNCHANGED callvars

\* lines 361-371: the flow of the fitted plane is too long
FitDegenerate ==
    /\ pc = "fit"
    /\ ransac.res /\ ~TooFewInliers
    /\ \E abc \in Fitted : SquaredNormExceeds(NormFlowVector(abc), NfBound)
    /\ Continue
    /\ UNCHANGED <<args, rtsMat, pMat, timeLast, mask, occupy, inliersOccupy,
                   nfs, tsImg, inRangeData, ransac, pack>>
    /\ UNCHANGED SurfaceVars
    /\ UNCHANGED Params
    /\ UNCHANGED callvars

\* lines 361-383: the flow is recorded, the inliers marked, the seed verified
FitRecord ==
    /\ pc = "fit"
    /\ ransac.res /\ ~TooFewInliers
    /\ \E abc \in Fitted :
          /\ ~SquaredNormExceeds(NormFlowVector(abc), NfBound)
          /\ nfs' = Append(nfs, [timestamp |-> TimeCen(inRangeData, scan[1],
                                                        scan[2]),
                                 p |-> scan,
                                 nf |-> NormFlowVector(abc)])
    /\ LET marked == {<<inRangeData[ransac.inliers[k]][1],
                          inRangeData[ransac.inliers[k]][2]>> :
                           k \in 1 .. Len(ransac.inliers)}
       IN  inliersOccupy' = [px \in Pixels(imgWidth, imgHeight) |->
                                IF px \in marked THEN 255 ELSE inliersOccupy[px]]
    /\ tsImg' = [tsImg EXCEPT ![scan] = "green"]
    /\ Continue
    /\ UNCHANGED <<args, rtsMat, pMat, timeLast, mask, occupy, inRangeData,
                   ransac, pack>>
    /\ UNCHANGED SurfaceVars
    /\ UNCHANGED Params
    /\ UNCHANGED callvars

\* lines 406-415: the pixel loop is over, the pack is returned
ExtractEnd ==
    /\ pc = "scan"
    /\ ~InLoop
    /\ pack' = [nfs |-> nfs, inliersOccupy |-> inliersOccupy,
                polarityMap |-> pMat, rawTimeSurfaceMap |-> rtsMat,
                timestamp |-> timeLatest, nfSeedsImg |-> tsImg]
    /\ pc' = "done"
    /\ UNCHANGED <<args, rtsMat, pMat, timeLast, mask, scan, occupy,
                   inliersOccupy, nfs, tsImg, inRangeData, ransac>>
    /\ UNCHANGED SurfaceVars
    /\ UNCHANGED Params
    /\ UNCHANGED callvars

----------------------------------------------------------------------------
(* EventNormFlow::NormFlowPack: the event lists of a returned pack *)

\* dt of ActiveEvents is 0 .. MaxDt ticks
MaxDt == 1

\* the pixels in the order of the loops: ey outside, ex inside
Raster(w, h) == [k \in 1 .. w * h |-> <<(k - 1) % w, (k - 1) \div w>>]

\* Event::Create(et, {ex, ey}, ep): the uchar of the polarity map becomes bool
CreateEvent(pk, px) ==
    [t |-> pk.rawTimeSurfaceMap[px], x |-> px[1], y |-> px[2],
     p |-> pk.polarityMap[px] # 0]

\* EventArray::Create(eventsVec.back()->GetTimestamp(), eventsVec), or nullptr
CreateEventArray(events) ==
    IF Len(events) > 0
    THEN [null |-> FALSE, timestamp |-> events[Len(events)].t, events |-> events]
    ELSE [null |-> TRUE]

\* the mutant of ActiveEvents that forgets dt
ActiveEventsAnyAge(pk, w, h, dt) ==
    LET Assigned(px) == ~(pk.rawTimeSurfaceMap[px] < Eps)
        picked == SelectSeq(Raster(w, h), Assigned)
    IN  CreateEventArray([i \in 1 .. Len(picked) |-> CreateEvent(pk, picked[i])])

\* NormFlowPack::ActiveEvents
ActiveEvents(pk, w, h, dt) ==
    LET Assigned(px) == ~(\/ pk.rawTimeSurfaceMap[px] < Eps
                          \/ pk.timestamp - pk.rawTimeSurfaceMap[px] > dt)
        picked == SelectSeq(Raster(w, h), Assigned)
    IN  CreateEventArray([i \in 1 .. Len(picked) |-> CreateEvent(pk, picked[i])])

\* NormFlowPack::NormFlowEvents
NormFlowEvents(pk, w, h) ==
    LET Assigned(px) == /\ ~(pk.rawTimeSurfaceMap[px] < Eps)
                        /\ ~(pk.inliersOccupy[px] = 0)
        picked == SelectSeq(Raster(w, h), Assigned)
    IN  CreateEventArray([i \in 1 .. Len(picked) |-> CreateEvent(pk, picked[i])])

\* the pack's accessors are const and leave the pack as it is, so a second
\* query in a row returns what it would have returned as the first: the
\* queries are taken one at a time from a state the extraction or the writer
\* left
QueryNext == last.op \notin {"ActiveEvents", "NormFlowEvents"}

\* a caller asks the returned pack for its active events
DoActiveEvents ==
    /\ pc = "done"
    /\ QueryNext
    /\ \E dt \in 0 .. MaxDt :
          last' = [op |-> "ActiveEvents", args |-> <<dt>>,
                   ret |-> ActiveEvents(pack, imgWidth, imgHeight, dt)]
    /\ UNCHANGED <<sae, saeLatest, timeLatest, eventImgMat, hist, feed>>
    /\ UNCHANGED exvars
    /\ UNCHANGED Params
    /\ UNCHANGED callvars

\* a caller asks the returned pack for its norm flow events
DoNormFlowEvents ==
    /\ pc = "done"
    /\ QueryNext
    /\ last' = [op |-> "NormFlowEvents", args |-> <<>>,
                ret |-> NormFlowEvents(pack, imgWidth, imgHeight)]
    /\ UNCHANGED <<sae, saeLatest, timeLatest, eventImgMat, hist, feed>>
    /\ UNCHANGED exvars
    /\ UNCHANGED Params
    /\ UNCHANGED callvars

\* the writer ingests at most MaxLate more events once the pack is returned
MaxLate == 1

\* the event the writer ingests next: one tick after the latest, at the
\* repeated pixel, its polarity by the parity of its timestamp
LateEvent ==
    [t |-> timeLatest + 1, x |-> 2, y |-> 2, p |-> (timeLatest + 1) % 2 = 0]

\* the mutant of DoGrabLate in which the pack reads its timestamp through
\* the surface
DoGrabLateThroughPack ==
    /\ pc = "done"
    /\ timeLatest - pack.timestamp < MaxLate
    /\ SetSurface(GrabEvent(Surface, FILTER_THD, LateEvent, drawEventMat))
    /\ hist' = Append(hist, LateEvent)
    /\ last' = [op |-> "GrabEvent", args |-> <<LateEvent>>, ret |-> <<>>]
    /\ pack' = [pack EXCEPT !.timestamp = LateEvent.t]
    /\ UNCHANGED <<feed, pc, args, rtsMat, pMat, timeLast, mask, scan, occupy,
                   inliersOccupy, nfs, tsImg, inRangeData, ransac>>
    /\ UNCHANGED Params
    /\ UNCHANGED callvars

\* the writer ingests an event after the pack is returned
DoGrabLate ==
    /\ pc = "done"
    /\ timeLatest - pack.timestamp < MaxLate
    /\ SetSurface(GrabEvent(Surface, FILTER_THD, LateEvent, drawEventMat))
    /\ hist' = Append(hist, LateEvent)
    /\ last' = [op |-> "GrabEvent", args |-> <<LateEvent>>, ret |-> <<>>]
    /\ UNCHANGED feed
    /\ UNCHANGED exvars
    /\ UNCHANGED Params
    /\ UNCHANGED callvars

----------------------------------------------------------------------------
(* The surfaces flows are extracted from *)

\* image sizes (width, height)
ExtractSizes == {<<7, 5>>}

\* the block of pixels that has seen events: its corner, width and height
Block == [corner |-> <<1, 1>>, w |-> 4, h |-> 3]

\* the pixel that sees a second event two ticks after its first
Repeated == <<2, 2>>

\* an EventArray of the feed holds at most this many events
ArrayLen == 7

\* one event at every pixel of the block, on the plane of slopes (a, b)
\* through t0 at the corner, and the second event at the repeated pixel
PlaneEvents(a, b, t0) ==
    LET T(px) == t0 + a * (px[1] - Block.corner[1]) + b * (px[2] - Block.corner[2])
        P(px) == (px[1] + px[2]) % 2 = 0
    IN  {[t |-> T(px), x |-> px[1], y |-> px[2], p |-> P(px)] :
            px \in (Block.corner[1] .. Block.corner[1] + Block.w - 1)
                   \X (Block.corner[2] .. Block.corner[2] + Block.h - 1)}
        \cup {[t |-> T(Repeated) + 2, x |-> Repeated[1], y |-> Repeated[2],
               p |-> P(Repeated)]}

\* e comes before f in timestamp order, row by row within a tick
Earlier(e, f) ==
    \/ e.t < f.t
    \/ e.t = f.t /\ e.y < f.y
    \/ e.t = f.t /\ e.y = f.y /\ e.x < f.x

\* the events of E in timestamp order
InTimeOrder(E) ==
    [i \in 1 .. Cardinality(E) |->
        CHOOSE e \in E : Cardinality({f \in E : Earlier(f, e)}) = i - 1]

\* the events of the sequence as EventArrays of at most n events
EventArrays(events, n) ==
    [k \in 1 .. (Len(events) + n - 1) \div n |->
        SubSeq(events, (k - 1) * n + 1, Min(k * n, Len(events)))]

InitX ==
    /\ \E sz \in ExtractSizes :
          /\ imgWidth = sz[1]
          /\ imgHeight = sz[2]
          /\ sae = FreshSurface(sz[1], sz[2]).sae
          /\ saeLatest = FreshSurface(sz[1], sz[2]).saeLatest
          /\ eventImgMat = FreshSurface(sz[1], sz[2]).eventImgMat
    /\ \/ \E a \in 0 .. MaxSlope, b \in 0 .. MaxSlope :
             feed = EventArrays(InTimeOrder(PlaneEvents(a, b, MaxThd + 1)),
                                ArrayLen)
       \/ feed = <<>>
    /\ timeLatest = 0
    /\ FILTER_THD \in Thds
    /\ undisto \in {0, 1}
    /\ negAsUchar \in {0, 255}
    /\ drawEventMat = FALSE
    /\ hist = <<>>
    /\ last = [op |-> "Create", args |-> <<>>, ret |-> <<>>]
    /\ pc = "idle"
    /\ args = <<>>
    /\ rtsMat = <<>>
    /\ pMat = <<>>
    /\ timeLast = 0
    /\ mask = <<>>
    /\ scan = <<0, 0>>
    /\ occupy = <<>>
    /\ inliersOccupy = <<>>
    /\ nfs = <<>>
    /\ tsImg = <<>>
    /\ inRangeData = <<>>
    /\ ransac = <<>>
    /\ pack = <<>>
    /\ vel = <<>>
    /\ fac = <<>>

NextX ==
    \/ DoFeed
    \/ ExtractBegin
    \/ ScanSkipMasked
    \/ ScanJump
    \/ ScanInsufficient
    \/ ScanClaim
    \/ FitReject
    \/ FitDegenerate
    \/ FitRecord
    \/ ExtractEnd
    \/ DoActiveEvents
    \/ DoNormFlowEvents
    \/ DoGrabLate

SpecX == InitX /\ [][NextX]_vars


----------------------------------------------------------------------------
(* VisualVelocitySacProblem::VisualVelocityEstimationRANSAC, whose body is  *)
(* not part of the sources at hand: the two entry points as the            *)
(* specification describes them                                            *)

\* a frame holds 0 .. MaxPoints points
MaxPoints == 6

\* the minimal sample: one linear system in the three unknowns
VelSampleSize == 3

\* the surface is not used: a fresh one of a single pixel
SurfaceUnused ==
    /\ imgWidth = 1
    /\ imgHeight = 1
    /\ sae = FreshSurface(1, 1).sae
    /\ saeLatest = FreshSurface(1, 1).saeLatest
    /\ eventImgMat = FreshSurface(1, 1).eventImgMat
    /\ timeLatest = 0
    /\ FILTER_THD = 0
    /\ undisto = 0
    /\ negAsUchar = 0
    /\ drawEventMat = FALSE
    /\ hist = <<>>
    /\ last = [op |-> "Create", args |-> <<>>, ret |-> <<>>]
    /\ ExtractIdle

SurfaceVarsAll == <<sae, saeLatest, timeLatest, eventImgMat, hist, last>>

\* the outcomes of the consensus routine on n points: it fails on fewer
\* points than a sample and may fail to converge on any; otherwise it ends
\* with a model and the number of points within the threshold of it
VelRansac(n) ==
    IF n < VelSampleSize
    THEN {[res |-> FALSE, inliers |-> 0]}
    ELSE {[res |-> FALSE, inliers |-> 0]}
         \cup {[res |-> TRUE, inliers |-> k] : k \in 0 .. n}

\* the mutant of VelUsable that asks for convergence only
VelUsableConverged(sac) == sac.res

\* the routine converged and left inliers enough for the refinement
VelUsable(sac) == sac.res /\ sac.inliers >= VelSampleSize

\* std::nullopt, or the refined velocity
VelNone == [none |-> TRUE]
VelSome == [none |-> FALSE]

\* the entry point over OpticalFlowCorr records and a readout duration:
\* one (pixel, flow, depth) tuple per record, then the other entry point
VelFromCorrs ==
    /\ vel # <<>>
    /\ vel.pc = "corrVec"
    /\ vel' = [vel EXCEPT !.pc = "dynamics"]
    /\ UNCHANGED SurfaceVarsAll
    /\ UNCHANGED exvars
    /\ UNCHANGED Params
    /\ UNCHANGED fac

\* the entry point over (pixel, flow, depth) tuples runs the consensus routine
VelComputeModel ==
    /\ vel # <<>>
    /\ vel.pc = "dynamics"
    /\ \E sac \in VelRansac(vel.n) : vel' = [vel EXCEPT !.pc = "sac", !.sac = sac]
    /\ UNCHANGED SurfaceVarsAll
    /\ UNCHANGED exvars
    /\ UNCHANGED Params
    /\ UNCHANGED fac

\* no value is returned
VelReject ==
    /\ vel # <<>>
    /\ vel.pc = "sac"
    /\ ~VelUsable(vel.sac)
    /\ vel' = [vel EXCEPT !.pc = "done", !.ret = VelNone]
    /\ UNCHANGED SurfaceVarsAll
    /\ UNCHANGED exvars
    /\ UNCHANGED Params
    /\ UNCHANGED fac

\* the velocity refined over the inliers is returned
VelReturn ==
    /\ vel # <<>>
    /\ vel.pc = "sac"
    /\ VelUsable(vel.sac)
    /\ vel' = [vel EXCEPT !.pc = "done", !.ret = VelSome]
    /\ UNCHANGED SurfaceVarsAll
    /\ UNCHANGED exvars
    /\ UNCHANGED Params
    /\ UNCHANGED fac

InitV ==
    /\ SurfaceUnused
    /\ vel \in [pc : {"dynamics", "corrVec"}, entry : {"dynamics", "corrVec"},
                n : 0 .. MaxPoints,
                sac : {[res |-> FALSE, inliers |-> 0]}, ret : {VelNone}]
    /\ vel.pc = vel.entry
    /\ fac = <<>>

NextV ==
    \/ VelFromCorrs
    \/ VelComputeModel
    \/ VelReject
    \/ VelReturn

SpecV == InitV /\ [][NextV]_vars

----------------------------------------------------------------------------
(* OpticalFlowCorr and RGBDVelocityFactor::operator()                       *)
(* Depth is counted in millimetres, so 1E-3 m is 1; spline knots are one   *)
(* tick apart and the first knot of either spline is at tick 0.            *)

\* the spline order is 2 .. MaxOrder, a spline has at most MaxKnots knots
MaxOrder == 3
MaxKnots == 4
\* depths are 0 .. MaxDepth
MaxDepth == 3

\* 1E-3, the least depth that is inverted
DepthEps == 1

\* a number as the fraction num / den; den = 0 is the result of a division
\* by zero
Frac(num, den) == [num |-> num, den |-> den]

\* invDepth(depth > 1E-3 ? 1.0 / depth : -1.0)
InvDepth(depth) == IF depth > DepthEps THEN Frac(1, depth) ELSE Frac(-1, 1)

\* OpticalFlowCorr::OpticalFlowCorr, with the members the factor reads
OpticalFlowCorr(timeMid, rdFactorMid, depth) ==
    [timeMid |-> timeMid, rdFactorMid |-> rdFactorMid, depth |-> depth,
     invDepth |-> InvDepth(depth)]

\* OpticalFlowCorr::MidPointTime
MidPointTime(corr, readout) == corr.timeMid + corr.rdFactorMid * readout

\* the blocks after the knots, in the order of the comment on operator()
FixedRoles ==
    <<"SO3_DnToBr", "POS_DnInBr", "TO_DnToBr", "READOUT_TIME", "FX", "FY",
      "CX", "CY", "ALPHA", "BETA", "DEPTH_INFO">>

\* what the caller stores in block k of sKnots, k counted from 0
Layout(Nr, Nt) ==
    [k \in 0 .. Nr + Nt + Len(FixedRoles) - 1 |->
        IF k < Nr THEN "SO3"
        ELSE IF k < Nr + Nt THEN "LIN_SCALE"
        ELSE FixedRoles[k - Nr - Nt + 1]]

\* the mutant of Offsets that counts the rotation knots only
OffsetsAfterRotation(Nr, Nt) ==
    [r \in {FixedRoles[k] : k \in 1 .. Len(FixedRoles)} |->
        Nr + (CHOOSE k \in 1 .. Len(FixedRoles) : FixedRoles[k] = r) - 1]

\* SO3_DnToBr_OFFSET = _so3Meta.NumParameters() + _scaleMeta.NumParameters()
\* and the ten offsets that follow it, each the one before plus 1
Offsets(Nr, Nt) ==
    [r \in {FixedRoles[k] : k \in 1 .. Len(FixedRoles)} |->
        Nr + Nt + (CHOOSE k \in 1 .. Len(FixedRoles) : FixedRoles[k] = r) - 1]

\* SplineMeta::ComputeSplineIndex on a spline of n knots: the index of the
\* segment that holds time t, or a failure for a time outside the spline
ComputeSplineIndex(n, order, t) ==
    IF 0 <= t /\ t < n - order + 1
    THEN [ok |-> TRUE, first |-> t]
    ELSE [ok |-> FALSE]

\* the knots an evaluation of a spline of this order reads from sKnots + offset
KnotsRead(offset, order) == offset .. offset + order - 1

\* the depth term of pred: DEPTH_INFO / (ALPHA + BETA * DEPTH_INFO) for
\* inverse depth, 1.0 / (ALPHA * DEPTH_INFO + BETA) for depth
DepthTerm(isInvDepth, alpha, beta, info) ==
    IF isInvDepth
    THEN Frac(info.num, alpha * info.den + beta * info.num)
    ELSE Frac(info.den, alpha * info.num + beta * info.den)

\* the value the caller stores in block k: the time offset, the readout
\* duration, the depth coefficients, and the inverse depth or the depth of
\* the correspondence as depth information; the blocks of the geometry are
\* not followed
BlockValue(f, k) ==
    LET role == Layout(f.Nr, f.Nt)[k]
    IN  IF role = "TO_DnToBr" THEN Frac(f.TO, 1)
        ELSE IF role = "READOUT_TIME" THEN Frac(f.READOUT, 1)
        ELSE IF role = "ALPHA" THEN Frac(f.ALPHA, 1)
        ELSE IF role = "BETA" THEN Frac(f.BETA, 1)
        ELSE IF role = "DEPTH_INFO"
             THEN (IF f.isInvDepth THEN f.corr.invDepth
                   ELSE Frac(f.corr.depth, 1))
        ELSE Frac(0, 1)

\* RGBDVelocityFactor::operator(): the blocks it reads, the spline indexes
\* it gets, and what it returns
Residual(f) ==
    LET off == Offsets(f.Nr, f.Nt)
        TO_DnToBr == BlockValue(f, off["TO_DnToBr"]).num
        READOUT_TIME == BlockValue(f, off["READOUT_TIME"]).num
        ALPHA == BlockValue(f, off["ALPHA"]).num
        BETA == BlockValue(f, off["BETA"]).num
        DEPTH_INFO == BlockValue(f, off["DEPTH_INFO"])
        timeByBr == MidPointTime(f.corr, READOUT_TIME) + TO_DnToBr
        iuSo3 == ComputeSplineIndex(f.Nr, f.order, timeByBr)
        iuScale == ComputeSplineIndex(f.Nt, f.order, timeByBr)
    IN  IF iuSo3.ok /\ iuScale.ok
        THEN [failed |-> FALSE,
              ok |-> TRUE,
              iuSo3 |-> iuSo3.first,
              iuScale |-> iuScale.first,
              fixed |-> off,
              SO3 |-> KnotsRead(iuSo3.first, f.order),
              LIN_SCALE |-> KnotsRead(iuScale.first + f.Nr, f.order),
              depthInfo |-> DEPTH_INFO,
              depthTerm |-> DepthTerm(f.isInvDepth, ALPHA, BETA, DEPTH_INFO)]
        ELSE [failed |-> TRUE]

\* the correspondence is built
FacCreateCorr ==
    /\ fac # <<>>
    /\ fac.pc = "new"
    /\ fac' = [fac EXCEPT !.pc = "built",
                          !.corr = OpticalFlowCorr(fac.timeMid, fac.rdFactorMid,
                                                   fac.depth)]
    /\ UNCHANGED SurfaceVarsAll
    /\ UNCHANGED exvars
    /\ UNCHANGED Params
    /\ UNCHANGED vel

\* the solver evaluates the factor at a time inside both splines
FacEvaluate ==
    /\ fac # <<>>
    /\ fac.pc = "built"
    /\ ~Residual(fac).failed
    /\ fac' = [fac EXCEPT !.pc = "evaluated", !.ret = Residual(fac)]
    /\ UNCHANGED SurfaceVarsAll
    /\ UNCHANGED exvars
    /\ UNCHANGED Params
    /\ UNCHANGED vel

\* the solver evaluates the factor at a time outside a spline
FacOutOfRange ==
    /\ fac # <<>>
    /\ fac.pc = "built"
    /\ Residual(fac).failed
    /\ fac' = [fac EXCEPT !.pc = "failed", !.ret = Residual(fac)]
    /\ UNCHANGED SurfaceVarsAll
    /\ UNCHANGED exvars
    /\ UNCHANGED Params
    /\ UNCHANGED vel

InitF ==
    /\ SurfaceUnused
    /\ vel = <<>>
    /\ fac \in [pc : {"new"}, order : 2 .. MaxOrder, Nr : 2 .. MaxKnots,
                Nt : 2 .. MaxKnots, isInvDepth : BOOLEAN, timeMid : 0 .. 2,
                rdFactorMid : {0, 1}, depth : 0 .. MaxDepth, TO : {-1, 0},
                READOUT : {0, 1}, ALPHA : {0, 1}, BETA : {0, 1},
                corr : {<<>>}, ret : {<<>>}]
    /\ fac.Nr >= fac.order
    /\ fac.Nt >= fac.order

NextF ==
    \/ FacCreateCorr
    \/ FacEvaluate
    \/ FacOutOfRange

SpecF == InitF /\ [][NextF]_vars

----------------------------------------------------------------------------
(* Claims about ExtractNormFlows *)

\* the distance of two pixels under which abs(dx) <= d and abs(dy) <= d
Chebyshev(p, q) == Max(Abs(p[1] - q[1]), Abs(p[2] - q[2]))

\* the pixels occupy marks, once the call has set it up
Claimed == {px \in DOMAIN occupy : occupy[px] = 255}

\* the pixel loop stands at a pixel of the mask
AtCandidate ==
    /\ pc = "scan"
    /\ InLoop
    /\ mask[scan] = 255

\* C7: a candidate with a claimed pixel within neighborDist (Chebyshev) of it
\* is not claimed and gets no flow, whatever winSize and neighborDist are; so
\* at every point of the scan two distinct claimed pixels, and the pixels of
\* two recorded flows, are more than neighborDist apart
C7_ClaimedPixelsApart ==
    /\ [][(AtCandidate /\ \E q \in Claimed :
                             Chebyshev(q, scan) <= args.neighborDist)
            => (occupy' = occupy /\ nfs' = nfs /\ pc' = "scan")]_vars
    /\ [](pc # "idle" =>
            /\ \A p \in Claimed, q \in Claimed :
                  p # q => Chebyshev(p, q) > args.neighborDist
            /\ \A i \in 1 .. Len(nfs), j \in 1 .. Len(nfs) :
                  i # j => Chebyshev(nfs[i].p, nfs[j].p) > args.neighborDist)

\* a candidate stands outside the window of the one claimed pixel, which is
\* exactly neighborDist from it
C7_Witness ==
    /\ AtCandidate
    /\ args.neighborDist > args.winSize
    /\ Claimed # {}
    /\ \A q \in Claimed : Chebyshev(q, scan) = args.neighborDist

\* C8: a candidate is claimed only if the number of masked pixels in its
\* window is at least goodRatioThd * winSampleCount, also when that product
\* is not a whole number
C8_ClaimedHasEnoughSamples ==
    [][(pc = "scan" /\ pc' = "fit")
         => Len(inRangeData') * args.goodRatioThd.den
                >= args.goodRatioThd.num * WinSampleCount(args.winSize)]_vars

\* the fit of the claimed pixel gives no flow
FitFails ==
    \/ ~ransac.res
    \/ TooFewInliers
    \/ \A abc \in Fitted : SquaredNormExceeds(NormFlowVector(abc), NfBound)

\* C9: a pixel that reaches the fit is claimed and stays claimed whatever
\* the fit gives; when the consensus run fails, the inlier ratio is too low
\* or the flow is discarded, it gets no flow and no inlier marks, and a later
\* candidate within neighborDist of it is still passed over
C9_ClaimedWhateverTheFit ==
    /\ [][pc = "fit" => (occupy[scan] = 255 /\ occupy' = occupy)]_vars
    /\ [][(pc = "fit" /\ FitFails)
            => (nfs' = nfs /\ inliersOccupy' = inliersOccupy
                /\ tsImg'[scan] = "red")]_vars
    /\ [][pc # "idle" => \A px \in Claimed : occupy'[px] = 255]_vars
    /\ [][(AtCandidate /\ \E q \in Claimed :
                             /\ tsImg[q] = "red"
                             /\ Chebyshev(q, scan) <= args.neighborDist)
            => (occupy' = occupy /\ nfs' = nfs /\ pc' = "scan")]_vars

\* the pixel before the candidate was claimed, its consensus run found too
\* few inliers, and it is the only claimed pixel in reach of the candidate
C9_Witness ==
    /\ AtCandidate
    /\ args.neighborDist >= 1
    /\ scan[1] > Sub
    /\ LET q == <<scan[1] - 1, scan[2]>>
       IN  /\ Claimed \cap {p \in DOMAIN occupy :
                               Chebyshev(p, scan) <= args.neighborDist} = {q}
           /\ tsImg[q] = "red"
           /\ inRangeData # <<>>
           /\ ransac.res
           /\ TooFewInliers
    /\ nfs = <<>>

\* C10: every flow of the returned pack has components that are numbers and
\* a squared norm of at most the bound 4E3 * 4E3, also when the fitted plane
\* has no slope in x and y
C10_RecordedFlowsBounded ==
    pc = "done" =>
        \A i \in 1 .. Len(pack.nfs) :
            /\ Finite(pack.nfs[i].nf)
            /\ ~SquaredNormExceeds(pack.nfs[i].nf, NfBound)

\* the raw time t is in the range the call takes as recent
Recent(t) ==
    /\ 2 * t >= Max(2 * Eps, 2 * timeLast - 3 * args.decaySec)
    /\ t <= timeLast

\* C11: the pixel of every recorded flow, every sample gathered for a fit
\* and every pixel marked in inliersOccupy has a raw time within
\* [max(1E-3, timeLast - 1.5 * decaySec), timeLast]; samples and marks are
\* within winSize (Chebyshev) of the pixel they were gathered for; the
\* timestamp of a flow is the raw time at its pixel
C11_OnlyRecentPixels ==
    pc \in {"scan", "fit", "done"} =>
        /\ \A i \in 1 .. Len(nfs) :
              /\ Recent(rtsMat[nfs[i].p])
              /\ nfs[i].timestamp = rtsMat[nfs[i].p]
        /\ \A px \in DOMAIN inliersOccupy :
              inliersOccupy[px] = 255 =>
                  /\ Recent(rtsMat[px])
                  /\ \E i \in 1 .. Len(nfs) :
                        Chebyshev(px, nfs[i].p) <= args.winSize
        /\ pc = "fit" =>
              \A k \in 1 .. Len(inRangeData) :
                  LET px == <<inRangeData[k][1], inRangeData[k][2]>>
                  IN  /\ inRangeData[k][3] = rtsMat[px]
                      /\ Recent(rtsMat[px])
                      /\ Chebyshev(px, scan) <= args.winSize

\* a flow was recorded at a pixel whose window holds a pixel with a
\* timestamp too old for the range
C11_Witness ==
    /\ pc = "done"
    /\ \E i \in 1 .. Len(pack.nfs) :
          \E px \in DOMAIN mask :
              /\ Chebyshev(px, pack.nfs[i].p) <= args.winSize
              /\ rtsMat[px] >= Eps
              /\ ~Recent(rtsMat[px])
              /\ pack.inliersOccupy[px] = 0

\* the events of the returned list are at exactly the pixels of Q, one each,
\* with the raw time of their pixel; no list is returned for an empty Q
ListsExactly(ret, Q) ==
    IF Q = {} THEN ret.null
    ELSE /\ ~ret.null
         /\ Len(ret.events) = Cardinality(Q)
         /\ {<<ret.events[i].x, ret.events[i].y>> :
                i \in 1 .. Len(ret.events)} = Q
         /\ \A i \in 1 .. Len(ret.events) :
               ret.events[i].t
                   = pack.rawTimeSurfaceMap[<<ret.events[i].x, ret.events[i].y>>]

\* C12: ActiveEvents(dt) returns exactly one event for each pixel whose raw
\* time is at least 1E-3 and at most dt older than the timestamp of the
\* pack, NormFlowEvents() exactly one for each pixel whose raw time is at
\* least 1E-3 and that inliersOccupy flags; each returns no list when no
\* pixel qualifies
C12_EventListsExact ==
    /\ last.op = "ActiveEvents" =>
          ListsExactly(last.ret,
                       {px \in DOMAIN pack.rawTimeSurfaceMap :
                           /\ pack.rawTimeSurfaceMap[px] >= Eps
                           /\ pack.timestamp - pack.rawTimeSurfaceMap[px]
                                  <= last.args[1]})
    /\ last.op = "NormFlowEvents" =>
          ListsExactly(last.ret,
                       {px \in DOMAIN pack.rawTimeSurfaceMap :
                           /\ pack.rawTimeSurfaceMap[px] >= Eps
                           /\ pack.inliersOccupy[px] = 255})

\* ActiveEvents returned a list that leaves out a timestamped pixel for its
\* age, from a pack that holds a flow
C12_Witness ==
    /\ last.op = "ActiveEvents"
    /\ ~last.ret.null
    /\ pack.nfs # <<>>
    /\ \E px \in DOMAIN pack.rawTimeSurfaceMap :
          /\ pack.rawTimeSurfaceMap[px] >= Eps
          /\ \A i \in 1 .. Len(last.ret.events) :
                <<last.ret.events[i].x, last.ret.events[i].y>> # px

\* the step is one of ExtractNormFlows
ExtractStep ==
    \/ pc = "idle" /\ pc' = "scan"
    \/ pc \in {"scan", "fit"}

\* C13: once ExtractNormFlows has returned, no ingest into the surface
\* changes the raw time map, polarity map, inlier mask, flow list or
\* timestamp of the pack; and no step of ExtractNormFlows changes sae,
\* saeLatest or the latest timestamp of the surface
C13_PackIsSnapshot ==
    /\ [][pc = "done" =>
            /\ pack'.rawTimeSurfaceMap = pack.rawTimeSurfaceMap
            /\ pack'.polarityMap = pack.polarityMap
            /\ pack'.inliersOccupy = pack.inliersOccupy
            /\ pack'.nfs = pack.nfs
            /\ pack'.timestamp = pack.timestamp]_vars
    /\ [][ExtractStep =>
            /\ sae' = sae
            /\ saeLatest' = saeLatest
            /\ timeLatest' = timeLatest]_vars

\* after the return of a pack with a flow, an event was ingested and
\* accepted at a pixel the pack holds a raw time for
C13_Witness ==
    /\ pc = "done"
    /\ pack.nfs # <<>>
    /\ last.op = "GrabEvent"
    /\ timeLatest > pack.timestamp
    /\ sae[PolOf(last.args[1])][<<last.args[1].x, last.args[1].y>>] = timeLatest
    /\ \A px \in DOMAIN pack.rawTimeSurfaceMap :
          pack.rawTimeSurfaceMap[px] < timeLatest

C15_BlocksInContractOrder ==
    (fac # <<>> /\ fac.pc = "evaluated") =>
        LET r == fac.ret
            lay == Layout(fac.Nr, fac.Nt)
            Roles == {FixedRoles[k] : k \in 1 .. Len(FixedRoles)}
        IN  /\ r.SO3 = r.iuSo3 .. r.iuSo3 + fac.order - 1
            /\ r.SO3 \subseteq 0 .. fac.Nr - 1
            /\ r.LIN_SCALE
                  = fac.Nr + r.iuScale .. fac.Nr + r.iuScale + fac.order - 1
            /\ r.LIN_SCALE \subseteq fac.Nr .. fac.Nr + fac.Nt - 1
            /\ \A k \in 1 .. Len(FixedRoles) :
                  r.fixed[FixedRoles[k]] = fac.Nr + fac.Nt + k - 1
            /\ \A k \in r.SO3 : lay[k] = "SO3"
            /\ \A k \in r.LIN_SCALE : lay[k] = "LIN_SCALE"
            /\ \A role \in Roles : lay[r.fixed[role]] = role
            /\ r.SO3 \cap r.LIN_SCALE = {}
            /\ \A role \in Roles : r.fixed[role] \notin r.SO3 \cup r.LIN_SCALE
            /\ \A r1 \in Roles, r2 \in Roles :
                  r1 # r2 => r.fixed[r1] # r.fixed[r2]

\* an evaluation read its knots from inside both splines, not from their
\* first knot, with more translation knots than the order
C15_Witness ==
    /\ fac # <<>>
    /\ fac.pc = "evaluated"
    /\ fac.ret.iuSo3 > 0
    /\ fac.ret.iuScale > 0
    /\ fac.Nr # fac.Nt
    /\ fac.Nt > fac.order

\* C16: a correspondence built with a depth of at most 1E-3 has the sentinel
\* -1 as its inverse depth, any other has 1 / depth; and an evaluation of
\* the residual that goes by inverse depth does not return a residual for a
\* correspondence whose inverse depth is the sentinel
C16_MalformedDepthUnusable ==
    (fac # <<>> /\ fac.pc # "new") =>
        /\ fac.depth <= DepthEps => fac.corr.invDepth = Frac(-1, 1)
        /\ fac.depth > DepthEps =>
              /\ fac.corr.invDepth.num * fac.depth = fac.corr.invDepth.den
              /\ fac.corr.invDepth.den # 0
        /\ (fac.pc = "evaluated" /\ fac.isInvDepth
            /\ fac.corr.invDepth = Frac(-1, 1))
              => ~fac.ret.ok


----------------------------------------------------------------------------
(* C17: how far the tracker runs ahead of the accepted time *)

\* the latest event of hist among the indexes idx
LastOf(idx) == CHOOSE i \in idx : \A j \in idx : j <= i

\* the time of the event of polarity pol at pixel px before the latest one
\* there: what saeLatest[pol](px) held when the latest one came (0: none)
TimeBeforeLast(pol, px) ==
    LET idx == EventsAt(hist, pol, px)
        prev == idx \ {LastOf(idx)}
    IN  IF prev = {} THEN 0 ELSE hist[LastOf(prev)].t

\* C17 as claimed: for every timestamp-ordered event sequence fed to a fresh
\* surface, after each ingest saeLatest[p](x,y) - sae[p](x,y) <= FILTER_THD
\* for every polarity and pixel.
C17_TrackerWithinThreshold ==
    InOrder =>
        \A pol \in {0, 1}, px \in ImagePixels :
            saeLatest[pol][px] - sae[pol][px] <= FILTER_THD

\* C17 amended: for every timestamp-ordered event sequence fed to a fresh
\* surface, after each ingest, an event that came more than FILTER_THD after
\* the previous event of its polarity at its pixel (after time 0 if it was
\* the first there) has been accepted: while it is the latest of its polarity
\* there, sae[p](x,y) = saeLatest[p](x,y) = its timestamp.  The tracker is
\* ahead of the accepted time only when the latest event came within
\* FILTER_THD of the one before it.
C17_AcceptedAfterQuietTracker ==
    InOrder =>
        \A pol \in {0, 1}, px \in ImagePixels :
            LET idx == EventsAt(hist, pol, px)
            IN  idx # {} =>
                  LET t == hist[LastOf(idx)].t
                  IN  /\ t > TimeBeforeLast(pol, px) + FILTER_THD =>
                            /\ sae[pol][px] = t
                            /\ saeLatest[pol][px] = t
                      /\ sae[pol][px] < saeLatest[pol][px] =>
                            t <= TimeBeforeLast(pol, px) + FILTER_THD

\* C17 witness: with a positive threshold, a first event of a pixel and
\* polarity was debounced, and the next one there came more than FILTER_THD
\* later and was accepted
C17_Witness ==
    /\ InOrder
    /\ FILTER_THD > 0
    /\ Len(hist) = 2
    /\ PolOf(hist[1]) = PolOf(hist[2])
    /\ <<hist[1].x, hist[1].y>> = <<hist[2].x, hist[2].y>>
    /\ hist[1].t <= FILTER_THD
    /\ hist[2].t > hist[1].t + FILTER_THD
    /\ sae[PolOf(hist[2])][<<hist[2].x, hist[2].y>>] = hist[2].t
    /\ saeLatest[PolOf(hist[2])][<<hist[2].x, hist[2].y>>] = hist[2].t

----------------------------------------------------------------------------
(* C18: the latest global timestamp *)

\* C18: the latest global timestamp is the timestamp of the most recently
\* ingested event, accepted or debounced; while the events come in timestamp
\* order from a fresh surface it is at least every entry of sae and
\* saeLatest, so the age timeLatest - max(sae[0], sae[1]) of a pixel is never
\* negative, and every raw time of a NormFlowPack is at most the pack's
\* timestamp.
C18_LatestTimeDominates ==
    /\ hist # <<>> => timeLatest = hist[Len(hist)].t
    /\ InOrder =>
          /\ \A pol \in {0, 1}, px \in ImagePixels :
                /\ sae[pol][px] <= timeLatest
                /\ saeLatest[pol][px] <= timeLatest
          /\ \A px \in ImagePixels :
                timeLatest - Max(sae[0][px], sae[1][px]) >= 0
          /\ pack # <<>> =>
                \A px \in ImagePixels :
                    pack.rawTimeSurfaceMap[px] <= pack.timestamp

\* C18 witness: a pack was returned whose latest raw time is its timestamp,
\* and the event ingested after it, in timestamp order, was debounced and
\* still moved the latest global timestamp past the pack's
C18_Witness ==
    /\ InOrder
    /\ pack # <<>>
    /\ \E px \in ImagePixels :
          /\ pack.rawTimeSurfaceMap[px] = pack.timestamp
          /\ pack.timestamp > 0
    /\ last.op = "GrabEvent"
    /\ LET e == hist[Len(hist)]
       IN  /\ sae[PolOf(e)][<<e.x, e.y>>] < e.t
           /\ timeLatest = e.t
           /\ timeLatest > pack.timestamp

----------------------------------------------------------------------------
(* C19: the pixels ExtractNormFlows touches *)

\* the pixels (nx, ny) = (x + dx, y + dy) of the two inner loops, where
\* occupy, mask and rtsMat are read
Traversed(x, y, sub) ==
    {<<x + dx, y + dy>> : dx \in -sub .. sub, dy \in -sub .. sub}

\* the pixels at least m away from every border of the image
Inner(m) ==
    {px \in ImagePixels : /\ m <= px[1] /\ px[1] <= imgWidth - 1 - m
                          /\ m <= px[2] /\ px[2] <= imgHeight - 1 - m}

\* C19: every pixel ExtractNormFlows reads or writes in the mask, the raw time
\* map, the claim map and the inlier mask is inside the image: the body of
\* the pixel loop runs only at pixels at least max(winSize, neighborDist) away
\* from every border, the square it traverses, the rows it gathers, the
\* pixels it claims and the flows it records are inside the image, and for an
\* image with no such pixel the pack has no flows and an all-zero inlier mask.
C19_AccessesInsideImage ==
    pc \in {"scan", "fit", "done"} =>
        LET m == Max(args.winSize, args.neighborDist)
        IN  /\ (pc = "fit" \/ (pc = "scan" /\ InLoop)) =>
                  /\ scan \in Inner(m)
                  /\ Traversed(scan[1], scan[2], Sub) \subseteq ImagePixels
            /\ pc = "fit" =>
                  \A i \in 1 .. Len(inRangeData) :
                      <<inRangeData[i][1], inRangeData[i][2]>> \in ImagePixels
            /\ DOMAIN occupy = ImagePixels
            /\ DOMAIN inliersOccupy = ImagePixels
            /\ \A px \in ImagePixels : occupy[px] = 255 => px \in Inner(m)
            /\ \A i \in 1 .. Len(nfs) : nfs[i].p \in Inner(m)
            /\ (pc = "done" /\ Inner(m) = {}) =>
                  /\ pack.nfs = <<>>
                  /\ \A px \in ImagePixels : pack.inliersOccupy[px] = 0

\* C19 witness: the surface holds events inside the mask, the image has no
\* pixel far enough from its borders, and the pack was returned
C19_Witness ==
    /\ pc = "done"
    /\ Inner(Max(args.winSize, args.neighborDist)) = {}
    /\ \E px \in ImagePixels : mask[px] = 255
    /\ pack.nfs = <<>>
    /\ \A px \in ImagePixels : pack.inliersOccupy[px] = 0

====
